---- MODULE Spec2Model ----
(***************************************************************************)
(* man2man.py: a manual page is fetched (man | col -b, else the web),      *)
(* parsed by regular expressions into a tool record, and printed or        *)
(* appended to the "tools" array of a JSON output file.                    *)
(*                                                                         *)
(* Text is a sequence of one-character strings.  The output file holds     *)
(* JSON text as a sequence of lexical tokens (white space between tokens   *)
(* is not kept, so --pretty and the compact form are the same text).       *)
(***************************************************************************)
EXTENDS Integers, Sequences, FiniteSets, TLC

\* ------------------------------------------------------------------ bounds
\* invocations of the program in one behaviour
MaxRuns == 2
\* tokens of a document that reach the file before a failing write stops
MaxPartial == 1

\* ------------------------------------------------------------- JSON values
\* A JSON value: k is its kind; s the characters of a string or number;
\* items the elements of an array or the values of an object; keys the keys
\* of an object in insertion order (a Python dict keeps insertion order).
JNull == [k |-> "null", s |-> <<>>, items |-> <<>>, keys |-> <<>>]
JTrue == [k |-> "true", s |-> <<>>, items |-> <<>>, keys |-> <<>>]
JNum(cs) == [k |-> "num", s |-> cs, items |-> <<>>, keys |-> <<>>]
JStr(cs) == [k |-> "str", s |-> cs, items |-> <<>>, keys |-> <<>>]
JArr(xs) == [k |-> "arr", s |-> <<>>, items |-> xs, keys |-> <<>>]
JObj(ks, xs) == [k |-> "obj", s |-> <<>>, items |-> xs, keys |-> ks]

\* lexical tokens of JSON text
Tok(t) == [t |-> t, s |-> <<>>]
TokS(t, cs) == [t |-> t, s |-> cs]

\* index of key in keys from index i on, 0 when absent
RECURSIVE KeyIndex(_, _, _)
KeyIndex(keys, key, i) ==
    IF i > Len(keys) THEN 0
    ELSE IF keys[i] = key THEN i ELSE KeyIndex(keys, key, i + 1)
\* key in d
HasKey(d, key) == KeyIndex(d.keys, key, 1) # 0
\* d[key] of a dict that has the key
Get(d, key) == d.items[KeyIndex(d.keys, key, 1)]
\* d[key] = v on a dict: a new key goes last, an old one keeps its place
SetKey(d, key, v) ==
    IF HasKey(d, key)
    THEN JObj(d.keys, [d.items EXCEPT ![KeyIndex(d.keys, key, 1)] = v])
    ELSE JObj(Append(d.keys, key), Append(d.items, v))

\* json.dump(value, f): the tokens written
RECURSIVE Dump(_)
RECURSIVE DumpItems(_, _)
RECURSIVE DumpMembers(_, _, _)
DumpItems(xs, i) ==
    IF i > Len(xs) THEN <<>>
    ELSE (IF i > 1 THEN <<Tok(",")>> ELSE <<>>) \o Dump(xs[i]) \o DumpItems(xs, i + 1)
DumpMembers(ks, xs, i) ==
    IF i > Len(ks) THEN <<>>
    ELSE (IF i > 1 THEN <<Tok(",")>> ELSE <<>>)
         \o <<TokS("str", ks[i]), Tok(":")>> \o Dump(xs[i])
         \o DumpMembers(ks, xs, i + 1)
Dump(v) ==
    CASE v.k = "obj" -> <<Tok("{")>> \o DumpMembers(v.keys, v.items, 1) \o <<Tok("}")>>
      [] v.k = "arr" -> <<Tok("[")>> \o DumpItems(v.items, 1) \o <<Tok("]")>>
      [] v.k = "str" -> <<TokS("str", v.s)>>
      [] v.k = "num" -> <<TokS("num", v.s)>>
      [] OTHER -> <<Tok(v.k)>>

\* json.load(f): a parse result is [ok, v, i]: the value read and the index
\* of the token after it; ok = FALSE is json.JSONDecodeError
ParseFail == [ok |-> FALSE, v |-> JNull, i |-> 0]
ParseOk(v, i) == [ok |-> TRUE, v |-> v, i |-> i]

RECURSIVE ParseValue(_, _)
RECURSIVE ParseItems(_, _, _)
RECURSIVE ParseMembers(_, _, _)
\* after the element r of an array: "]" ends it, "," goes on
AfterItem(toks, acc, r) ==
    IF ~r.ok \/ r.i > Len(toks) THEN ParseFail
    ELSE IF toks[r.i].t = "]" THEN ParseOk(JArr(Append(acc, r.v)), r.i + 1)
    ELSE IF toks[r.i].t = "," THEN ParseItems(toks, r.i + 1, Append(acc, r.v))
    ELSE ParseFail
\* the elements of an array after "[" or ","; acc is the array so far
ParseItems(toks, i, acc) == AfterItem(toks, acc, ParseValue(toks, i))
\* after the value r of the member with this key: "}" ends the object, ","
\* goes on; a key met again keeps its place and takes the later value
AfterMember(toks, acc, key, r) ==
    IF ~r.ok \/ r.i > Len(toks) THEN ParseFail
    ELSE IF toks[r.i].t = "}" THEN ParseOk(SetKey(acc, key, r.v), r.i + 1)
    ELSE IF toks[r.i].t = "," THEN ParseMembers(toks, r.i + 1, SetKey(acc, key, r.v))
    ELSE ParseFail
\* the members of an object after "{" or ","; acc is the dict so far
ParseMembers(toks, i, acc) ==
    IF i + 1 > Len(toks) \/ toks[i].t # "str" \/ toks[i + 1].t # ":" THEN ParseFail
    ELSE AfterMember(toks, acc, toks[i].s, ParseValue(toks, i + 2))
ParseValue(toks, i) ==
    IF i > Len(toks) THEN ParseFail
    ELSE CASE toks[i].t = "{" ->
                IF i + 1 <= Len(toks) /\ toks[i + 1].t = "}"
                THEN ParseOk(JObj(<<>>, <<>>), i + 2)
                ELSE ParseMembers(toks, i + 1, JObj(<<>>, <<>>))
           [] toks[i].t = "[" ->
                IF i + 1 <= Len(toks) /\ toks[i + 1].t = "]"
                THEN ParseOk(JArr(<<>>), i + 2)
                ELSE ParseItems(toks, i + 1, <<>>)
           [] toks[i].t = "str" -> ParseOk(JStr(toks[i].s), i + 1)
           [] toks[i].t = "num" -> ParseOk(JNum(toks[i].s), i + 1)
           [] toks[i].t = "null" -> ParseOk(JNull, i + 1)
           [] toks[i].t = "true" -> ParseOk(JTrue, i + 1)
           [] OTHER -> ParseFail
\* the whole text must be one value ("Extra data" is a JSONDecodeError too)
WholeText(toks, r) == IF r.ok /\ r.i = Len(toks) + 1 THEN r ELSE ParseFail
Load(toks) == WholeText(toks, ParseValue(toks, 1))

\* ------------------------------------------------------------ characters
Upper == {"A","B","C","D","E","F","G","H","I","J","K","L","M",
          "N","O","P","Q","R","S","T","U","V","W","X","Y","Z"}
Lower == {"a","b","c","d","e","f","g","h","i","j","k","l","m",
          "n","o","p","q","r","s","t","u","v","w","x","y","z"}
Digit == {"0","1","2","3","4","5","6","7","8","9"}
Letter == Upper \cup Lower
\* \w and \s of the re module, over the characters of the model
WordCh == Upper \cup Lower \cup Digit \cup {"_"}
SpaceCh == {" ", "\n", "\t"}
UpperSeq == <<"A","B","C","D","E","F","G","H","I","J","K","L","M",
              "N","O","P","Q","R","S","T","U","V","W","X","Y","Z">>
LowerSeq == <<"a","b","c","d","e","f","g","h","i","j","k","l","m",
              "n","o","p","q","r","s","t","u","v","w","x","y","z">>
\* str.lower() of one character
LowerCh(c) ==
    IF c \in Upper THEN LowerSeq[CHOOSE i \in 1..Len(UpperSeq) : UpperSeq[i] = c] ELSE c

\* ------------------------------------------------------ regular expressions
\* The patterns of the program, as syntax trees.  Every pattern of the
\* program has at most one capturing group, so a match carries one capture.
Set(cs) == [t |-> "set", cs |-> cs]
NSet(cs) == [t |-> "nset", cs |-> cs]
Lit(str) == [t |-> "lit", str |-> str]
\* a literal under re.IGNORECASE
ILit(str) == [t |-> "ilit", str |-> str]
Cat(rs) == [t |-> "cat", rs |-> rs]
Alt(rs) == [t |-> "alt", rs |-> rs]
\* r{lo,hi}; hi = -1 is no upper limit; greedy or lazy
Rep(r, lo, hi, greedy) == [t |-> "rep", r |-> r, lo |-> lo, hi |-> hi, greedy |-> greedy]
Star(r) == Rep(r, 0, -1, TRUE)
Plus(r) == Rep(r, 1, -1, TRUE)
Opt(r) == Rep(r, 0, 1, TRUE)
LazyStar(r) == Rep(r, 0, -1, FALSE)
LazyPlus(r) == Rep(r, 1, -1, FALSE)
\* ( r ), the capturing group
Grp(r) == [t |-> "grp", r |-> r]
\* (?= r )
Ahead(r) == [t |-> "ahead", r |-> r]
\* \b, \Z and $ (without re.MULTILINE)
WordB == [t |-> "wordb"]
EndZ == [t |-> "endz"]
EndDollar == [t |-> "dollar"]
\* . under re.DOTALL, \s, \S, \w
AnyCh == NSet({})
ReS == Set(SpaceCh)
ReNS == NSet(SpaceCh)
ReW == Set(WordCh)

IsWordAt(s, i) == i >= 1 /\ i <= Len(s) /\ s[i] \in WordCh

LitAt(s, i, str) ==
    /\ i + Len(str) - 1 <= Len(s)
    /\ \A j \in 1..Len(str) : s[i + j - 1] = str[j]
ILitAt(s, i, str) ==
    /\ i + Len(str) - 1 <= Len(s)
    /\ \A j \in 1..Len(str) : LowerCh(s[i + j - 1]) = LowerCh(str[j])

\* A match state is [i, gs, ge]: the position after the match and the
\* capture (gs = 0: unset; the capture is s[gs .. ge-1]).  M(r, s, m) is
\* the sequence of match states r can reach from state m, in the order the
\* backtracking matcher of the re module tries them; its head is the match.
\* (Recursion is by halving wherever its depth would grow with the text.)
OneChar(r) == r.t \in {"set", "nset"}
ChMatches(r, c) == IF r.t = "set" THEN c \in r.cs ELSE c \notin r.cs
\* a if it is a position, else b
OrElse(a, b) == IF a # 0 THEN a ELSE b
\* the first position in lo..hi whose character r does not match, 0 when
\* there is none
RECURSIVE FirstOther(_, _, _, _)
FirstOther(r, s, lo, hi) ==
    IF lo > hi THEN 0
    ELSE IF lo = hi THEN (IF ChMatches(r, s[lo]) THEN 0 ELSE lo)
    ELSE OrElse(FirstOther(r, s, lo, (lo + hi) \div 2),
                FirstOther(r, s, (lo + hi) \div 2 + 1, hi))
\* how many characters from position i on match the one-character pattern r
RunTo(k, s, i) == IF k = 0 THEN Len(s) - i + 1 ELSE k - i
RunLen(r, s, i) == RunTo(FirstOther(r, s, i, Len(s)), s, i)

RECURSIVE M(_, _, _)
RECURSIVE MCat(_, _, _, _)
RECURSIVE MAlt(_, _, _, _)
RECURSIVE MRep(_, _, _, _)
RECURSIVE MEach(_, _, _, _, _, _)
RECURSIVE MRepEach(_, _, _, _, _, _, _)
\* rs[k..] from each of the states ms[lo..hi] in turn
MEach(rs, k, s, ms, lo, hi) ==
    IF lo > hi THEN <<>>
    ELSE IF lo = hi THEN MCat(rs, k, s, ms[lo])
    ELSE MEach(rs, k, s, ms, lo, (lo + hi) \div 2)
         \o MEach(rs, k, s, ms, (lo + hi) \div 2 + 1, hi)
MEachOf(rs, k, s, ms) == MEach(rs, k, s, ms, 1, Len(ms))
MCat(rs, k, s, m) ==
    IF k > Len(rs) THEN <<m>>
    ELSE MEachOf(rs, k + 1, s, M(rs[k], s, m))
MAlt(rs, k, s, m) ==
    IF k > Len(rs) THEN <<>>
    ELSE M(rs[k], s, m) \o MAlt(rs, k + 1, s, m)
\* one more iteration of r.r from each of ms[lo..hi] (the ones that consumed
\* something: an iteration that consumes nothing ends the repetition)
MRepEach(r, s, m, n, ms, lo, hi) ==
    IF lo > hi THEN <<>>
    ELSE IF lo = hi
         THEN IF ms[lo].i > m.i THEN MRep(r, s, ms[lo], n + 1) ELSE <<>>
    ELSE MRepEach(r, s, m, n, ms, lo, (lo + hi) \div 2)
         \o MRepEach(r, s, m, n, ms, (lo + hi) \div 2 + 1, hi)
MRepEachOf(r, s, m, n, ms) == MRepEach(r, s, m, n, ms, 1, Len(ms))
\* the longer matches first when greedy, last when lazy
Ordered(greedy, more, stop) == IF greedy THEN more \o stop ELSE stop \o more
\* r.r repeated, n times so far
MRep(r, s, m, n) ==
    Ordered(r.greedy,
            IF r.hi = -1 \/ n < r.hi THEN MRepEachOf(r, s, m, n, M(r.r, s, m)) ELSE <<>>,
            IF n >= r.lo THEN <<m>> ELSE <<>>)
\* a one-character pattern repeated: every count from r.lo to top, the
\* longest first when greedy, the shortest when lazy
MRepCounts(r, m, top) ==
    [j \in 1..(IF top >= r.lo THEN top - r.lo + 1 ELSE 0) |->
        [m EXCEPT !.i = m.i + (IF r.greedy THEN top - j + 1 ELSE r.lo + j - 1)]]
\* the most that fits: the length of the run, or r.hi
MRepTop(r, run) == IF r.hi # -1 /\ r.hi < run THEN r.hi ELSE run
MRepChar(r, s, m) == MRepCounts(r, m, MRepTop(r, RunLen(r.r, s, m.i)))
\* the capture of the group that began at position gs
SetGroup(ms, gs) == [j \in 1..Len(ms) |-> [ms[j] EXCEPT !.gs = gs, !.ge = ms[j].i]]
M(r, s, m) ==
    CASE r.t \in {"set", "nset"} ->
            IF m.i <= Len(s) /\ ChMatches(r, s[m.i])
            THEN <<[m EXCEPT !.i = m.i + 1]>> ELSE <<>>
      [] r.t = "lit" ->
            IF LitAt(s, m.i, r.str) THEN <<[m EXCEPT !.i = m.i + Len(r.str)]>> ELSE <<>>
      [] r.t = "ilit" ->
            IF ILitAt(s, m.i, r.str) THEN <<[m EXCEPT !.i = m.i + Len(r.str)]>> ELSE <<>>
      [] r.t = "cat" -> MCat(r.rs, 1, s, m)
      [] r.t = "alt" -> MAlt(r.rs, 1, s, m)
      [] r.t = "rep" -> IF OneChar(r.r) THEN MRepChar(r, s, m) ELSE MRep(r, s, m, 0)
      [] r.t = "grp" -> SetGroup(M(r.r, s, m), m.i)
      [] r.t = "ahead" -> IF M(r.r, s, m) # <<>> THEN <<m>> ELSE <<>>
      [] r.t = "wordb" ->
            IF IsWordAt(s, m.i - 1) # IsWordAt(s, m.i) THEN <<m>> ELSE <<>>
      [] r.t = "endz" -> IF m.i = Len(s) + 1 THEN <<m>> ELSE <<>>
      [] r.t = "dollar" ->
            IF m.i = Len(s) + 1 \/ (m.i = Len(s) /\ s[m.i] = "\n") THEN <<m>> ELSE <<>>

MatchAt(r, s, i) == M(r, s, [i |-> i, gs |-> 0, ge |-> 0])
\* the first position in lo..hi where r matches, 0 when there is none
RECURSIVE FirstHit(_, _, _, _)
FirstHit(r, s, lo, hi) ==
    IF lo > hi THEN 0
    ELSE IF lo = hi THEN (IF MatchAt(r, s, lo) # <<>> THEN lo ELSE 0)
    ELSE OrElse(FirstHit(r, s, lo, (lo + hi) \div 2),
                FirstHit(r, s, (lo + hi) \div 2 + 1, hi))

\* A search result [found, b, e, gs, ge]: the match is s[b .. e-1].
NoMatch == [found |-> FALSE, b |-> 0, e |-> 0, gs |-> 0, ge |-> 0]
Found(b, m) == [found |-> TRUE, b |-> b, e |-> m.i, gs |-> m.gs, ge |-> m.ge]
\* the match at position b, the leftmost one (b = 0: there is none)
ResultAt(r, s, b) == IF b = 0 THEN NoMatch ELSE Found(b, MatchAt(r, s, b)[1])
\* re.search(r, s) from position i on: the leftmost match
SearchFrom(r, s, i) == ResultAt(r, s, FirstHit(r, s, i, Len(s) + 1))
Search(r, s) == SearchFrom(r, s, 1)
\* whether re.search(r, s) is a match
Matches(r, s) == FirstHit(r, s, 1, Len(s) + 1) # 0
\* match.group(1)
Group1(s, m) == IF m.gs = 0 THEN <<>> ELSE SubSeq(s, m.gs, m.ge - 1)

\* re.sub(r, '', s, count): the first count matches removed (count < 0: all).
\* The patterns it is used with match no empty string.
RECURSIVE SubFrom(_, _, _, _)
SubStep(r, s, i, count, m) ==
    IF ~m.found \/ count = 0 \/ m.e = m.b THEN SubSeq(s, i, Len(s))
    ELSE SubSeq(s, i, m.b - 1) \o SubFrom(r, s, m.e, count - 1)
SubFrom(r, s, i, count) == SubStep(r, s, i, count, SearchFrom(r, s, i))
\* re.sub(r, '', s)
SubAll(r, s) == SubFrom(r, s, 1, -1)
\* re.sub(r, '', s, count=n): count=0 means no limit in the re module
SubCount(r, s, n) == SubFrom(r, s, 1, IF n = 0 THEN -1 ELSE n)

\* re.findall(r, s) for a pattern with one group: the captures, in order
RECURSIVE FindAllFrom(_, _, _)
FindAllStep(r, s, m) ==
    IF ~m.found \/ m.e = m.b THEN <<>>
    ELSE <<Group1(s, m)>> \o FindAllFrom(r, s, m.e)
FindAllFrom(r, s, i) == FindAllStep(r, s, SearchFrom(r, s, i))
FindAll(r, s) == FindAllFrom(r, s, 1)

\* re.split(r, s) for a pattern without a group
RECURSIVE SplitFrom(_, _, _)
SplitStep(r, s, from, m) ==
    IF ~m.found \/ m.e = m.b THEN <<SubSeq(s, from, Len(s))>>
    ELSE <<SubSeq(s, from, m.b - 1)>> \o SplitFrom(r, s, m.e)
SplitFrom(r, s, from) == SplitStep(r, s, from, SearchFrom(r, s, from))
Split(r, s) == SplitFrom(r, s, 1)

\* re.sub(r'\s+', ' ', s): of each run of white space, one blank is left
RECURSIVE CollapseRange(_, _, _)
CollapseRange(s, lo, hi) ==
    IF lo > hi THEN <<>>
    ELSE IF lo = hi
         THEN IF s[lo] \notin SpaceCh THEN <<s[lo]>>
              ELSE IF lo > 1 /\ s[lo - 1] \in SpaceCh THEN <<>> ELSE <<" ">>
    ELSE CollapseRange(s, lo, (lo + hi) \div 2)
         \o CollapseRange(s, (lo + hi) \div 2 + 1, hi)
CollapseSpace(s) == CollapseRange(s, 1, Len(s))

\* ------------------------------------------------------------- str methods
\* the last position of s whose character is not in cs, 0 when there is none
LastOutside(s, cs) ==
    IF \A k \in 1..Len(s) : s[k] \in cs THEN 0
    ELSE CHOOSE j \in 1..Len(s) : s[j] \notin cs /\ \A k \in (j + 1)..Len(s) : s[k] \in cs
\* s.strip()
Strip(s) == SubSeq(s, RunLen(ReS, s, 1) + 1, LastOutside(s, SpaceCh))
\* s.rstrip('.')
RStripDots(s) == SubSeq(s, 1, LastOutside(s, {"."}))
\* s.lower()
LowerStr(s) == [i \in 1..Len(s) |-> LowerCh(s[i])]
\* sub in s
Contains(s, sub) == \E i \in 1..(Len(s) + 1) : LitAt(s, i, sub)
\* s.startswith(prefix)
StartsWith(s, prefix) == LitAt(s, 1, prefix)
\* s.split('\n')
SplitLines(s) == Split(Lit(<<"\n">>), s)
\* ' '.join(parts)
RECURSIVE JoinSpace(_)
JoinSpace(parts) ==
    IF parts = <<>> THEN <<>>
    ELSE IF Len(parts) = 1 THEN parts[1]
    ELSE parts[1] \o <<" ">> \o JoinSpace(Tail(parts))
\* s[:n]
Truncate(s, n) == SubSeq(s, 1, IF Len(s) < n THEN Len(s) ELSE n)
\* str(n) for 0 <= n
RECURSIVE IntToStr(_)
IntToStr(n) ==
    IF n < 10 THEN <<<<"0","1","2","3","4","5","6","7","8","9">>[n + 1]>>
    ELSE IntToStr(n \div 10) \o IntToStr(n % 10)

\* x as a list of one element, or no element when x is empty
NonEmpty(x) == IF x # <<>> THEN <<x>> ELSE <<>>

\* ------------------------------------------------------ extract_description
\* NAME\s*\n\s*\S+\s*[-]\s*(.+?)(?=\n\S|\n\n)   (re.DOTALL; of the three dashes
\* of the class, the text of the model has the hyphen)
NameRe ==
    Cat(<<Lit(<<"N","A","M","E">>), Star(ReS), Lit(<<"\n">>), Star(ReS), Plus(ReNS), Star(ReS),
          Set({"-"}), Star(ReS), Grp(LazyPlus(AnyCh)),
          Ahead(Alt(<<Cat(<<Lit(<<"\n">>), ReNS>>), Lit(<<"\n","\n">>)>>))>>)
\* DESCRIPTION\s*\n\s*(.+?)(?=\n\S+\n|\n\n\S)   (re.DOTALL)
DescRe ==
    Cat(<<Lit(<<"D","E","S","C","R","I","P","T","I","O","N">>), Star(ReS), Lit(<<"\n">>), Star(ReS), Grp(LazyPlus(AnyCh)),
          Ahead(Alt(<<Cat(<<Lit(<<"\n">>), Plus(ReNS), Lit(<<"\n">>)>>),
                      Cat(<<Lit(<<"\n","\n">>), ReNS>>)>>))>>)
\* [.!?]\s+
SentenceRe == Cat(<<Set({".", "!", "?"}), Plus(ReS)>>)

\* the description, given the two matches
DescriptionOf(man_content, name_match, desc_match) ==
    IF name_match.found
    THEN CollapseSpace(Strip(Group1(man_content, name_match)))
    ELSE IF desc_match.found
         THEN Strip(Split(SentenceRe, Strip(Group1(man_content, desc_match)))[1])
         ELSE <<"N","o"," ","d","e","s","c","r","i","p","t","i","o","n"," ","a","v","a","i","l","a","b","l","e">>
extract_description(man_content) ==
    DescriptionOf(man_content, Search(NameRe, man_content), Search(DescRe, man_content))

\* -------------------------------------------------- classify_parameter_type
\* \b(toggle|enable|disable|flag)\b
FlagWordRe ==
    Cat(<<WordB, Alt(<<Lit(<<"t","o","g","g","l","e">>), Lit(<<"e","n","a","b","l","e">>), Lit(<<"d","i","s","a","b","l","e">>), Lit(<<"f","l","a","g">>)>>),
          WordB>>)
\* \b\w+=\w+\b
KvEqualsRe == Cat(<<WordB, Plus(ReW), Lit(<<"=">>), Plus(ReW), WordB>>)
\* \bname=value\b   (re.IGNORECASE)
NameValueRe == Cat(<<WordB, ILit(<<"n","a","m","e","=","v","a","l","u","e">>), WordB>>)
\* \b\w+:\w+\b
KvColonRe == Cat(<<WordB, Plus(ReW), Lit(<<":">>), Plus(ReW), WordB>>)
\* \busername:password\b   (re.IGNORECASE)
UserPassRe == Cat(<<WordB, ILit(<<"u","s","e","r","n","a","m","e",":","p","a","s","s","w","o","r","d">>), WordB>>)
\* \bname:value\b   (re.IGNORECASE)
NameColonValueRe == Cat(<<WordB, ILit(<<"n","a","m","e",":","v","a","l","u","e">>), WordB>>)
\* --\w+=
LongEqualsRe == Cat(<<Lit(<<"-","-">>), Plus(ReW), Lit(<<"=">>)>>)
\* \s+\w+(?:\s+|\]|$)
TakesValueRe == Cat(<<Plus(ReS), Plus(ReW), Alt(<<Plus(ReS), Lit(<<"]">>), EndDollar>>)>>)
\* \b(specify|set|use|take|accept|require)\b
ValueWordRe ==
    Cat(<<WordB, Alt(<<Lit(<<"s","p","e","c","i","f","y">>), Lit(<<"s","e","t">>), Lit(<<"u","s","e">>), Lit(<<"t","a","k","e">>),
                       Lit(<<"a","c","c","e","p","t">>), Lit(<<"r","e","q","u","i","r","e">>)>>), WordB>>)

\* the rules, in the order of the code, on the combined text
ClassifyOn(param_name, description, combined_text) ==
    IF Matches(FlagWordRe, LowerStr(description)) THEN <<"f","l","a","g">>
    ELSE IF /\ Matches(KvEqualsRe, combined_text)
            /\ ~Contains(param_name, <<"=">>)
            /\ Matches(NameValueRe, combined_text)
         THEN <<"o","p","t","i","o","n","-","k","v","-","e","q","u","a","l","s">>
    ELSE IF /\ Matches(KvColonRe, combined_text)
            /\ ~Contains(param_name, <<":">>)
            /\ Matches(UserPassRe, combined_text) \/ Matches(NameColonValueRe, combined_text)
         THEN <<"o","p","t","i","o","n","-","k","v","-","c","o","l","o","n">>
    ELSE IF Contains(param_name, <<"=">>) \/ Matches(LongEqualsRe, description)
         THEN <<"o","p","t","i","o","n","-","e","q","u","a","l","s">>
    ELSE IF Matches(TakesValueRe, param_name) THEN <<"o","p","t","i","o","n">>
    ELSE IF StartsWith(param_name, <<"-">>) /\ Len(param_name) = 2
         THEN IF Matches(ValueWordRe, LowerStr(description)) THEN <<"o","p","t","i","o","n">> ELSE <<"f","l","a","g">>
    ELSE <<"o","p","t","i","o","n">>
classify_parameter_type(param_name, description, first_line) ==
    ClassifyOn(param_name, description,
               param_name \o <<" ">> \o first_line \o <<" ">> \o description)

\* ------------------------------------------------------- extract_value_type
\* \w+(?:[_-]\w+)*
ValueWord == Cat(<<Plus(ReW), Star(Cat(<<Set({"_", "-"}), Plus(ReW)>>))>>)
\* [-<](\w+(?:[_-]\w+)*)[>\]] ; \s+(\w+(?:[_-]\w+)*)\s*\.\.\. ;
\* =(\w+(?:[_-]\w+)*) ; \s+([A-Z][A-Z_]+)\b
value_patterns ==
    << Cat(<<Set({"-", "<"}), Grp(ValueWord), Set({">", "]"})>>),
       Cat(<<Plus(ReS), Grp(ValueWord), Star(ReS), Lit(<<".",".",".">>)>>),
       Cat(<<Lit(<<"=">>), Grp(ValueWord)>>),
       Cat(<<Plus(ReS), Grp(Cat(<<Set(Upper), Plus(Set(Upper \cup {"_"}))>>)), WordB>>) >>

\* the normalisation of a captured token
NormalizeValueType(value_type) ==
    IF value_type \in {<<"f","i","l","e">>, <<"p","a","t","h">>, <<"f","i","l","e","n","a","m","e">>, <<"f","i","l","e","p","a","t","h">>} THEN <<"f","i","l","e","-","p","a","t","h">>
    ELSE IF value_type \in {<<"n","u","m">>, <<"n","u","m","b","e","r">>, <<"n">>, <<"c","o","u","n","t">>} THEN <<"n","u","m","b","e","r">>
    ELSE IF value_type \in {<<"s","t","r","i","n","g">>, <<"s","t","r">>, <<"t","e","x","t">>} THEN <<"s","t","r","i","n","g">>
    ELSE IF value_type \in {<<"p","i","d">>, <<"p","r","o","c","e","s","s">>} THEN <<"p","i","d">>
    ELSE IF value_type \in {<<"d","i","r">>, <<"d","i","r","e","c","t","o","r","y">>} THEN <<"d","i","r","e","c","t","o","r","y">>
    ELSE value_type

\* the hints of the description; <<>> is None
DescriptionHint(desc_lower) ==
    IF Contains(desc_lower, <<"f","i","l","e">>) \/ Contains(desc_lower, <<"p","a","t","h">>) THEN <<"f","i","l","e","-","p","a","t","h">>
    ELSE IF Contains(desc_lower, <<"n","u","m","b","e","r">>) \/ Contains(desc_lower, <<"n","u","m","e","r","i","c">>) THEN <<"n","u","m","b","e","r">>
    ELSE IF Contains(desc_lower, <<"d","i","r","e","c","t","o","r","y">>) THEN <<"d","i","r","e","c","t","o","r","y">>
    ELSE IF Contains(desc_lower, <<"p","i","d">>) \/ Contains(desc_lower, <<"p","r","o","c","e","s","s"," ","i","d">>) THEN <<"p","i","d">>
    ELSE <<>>

\* the loop over value_patterns from pattern k on (no pattern captures an
\* empty token, so <<>> is None alone)
RECURSIVE ValueTypeFrom(_, _, _)
ValueTypeStep(k, param_text, description, match) ==
    IF match.found THEN NormalizeValueType(LowerStr(Group1(param_text, match)))
    ELSE ValueTypeFrom(k + 1, param_text, description)
ValueTypeFrom(k, param_text, description) ==
    IF k > Len(value_patterns) THEN DescriptionHint(LowerStr(description))
    ELSE ValueTypeStep(k, param_text, description, Search(value_patterns[k], param_text))
extract_value_type(param_text, description) == ValueTypeFrom(1, param_text, description)

\* ------------------------------------------------------------ parse_options
\* (?:OPTIONS|The following options are available:?)\s*\n(.*?)(?=\n[A-Z][A-Z\s]+\n|\Z)
\* under re.DOTALL | re.MULTILINE | re.IGNORECASE: the flag makes [A-Z] match
\* the lower-case letters too
OptionsRe ==
    Cat(<<Alt(<<ILit(<<"O","P","T","I","O","N","S">>),
                Cat(<<ILit(<<"T","h","e"," ","f","o","l","l","o","w","i","n","g"," ","o","p","t","i","o","n","s"," ","a","r","e"," ","a","v","a","i","l","a","b","l","e">>), Opt(Lit(<<":">>))>>)>>),
          Star(ReS), Lit(<<"\n">>), Grp(LazyStar(AnyCh)),
          Ahead(Alt(<<Cat(<<Lit(<<"\n">>), Set(Letter), Plus(Set(Letter \cup SpaceCh)),
                            Lit(<<"\n">>)>>),
                      EndZ>>))>>)
\* \n(?=\s+-)
EntrySplitRe == Cat(<<Lit(<<"\n">>), Ahead(Cat(<<Plus(ReS), Lit(<<"-">>)>>))>>)
\* (-{1,2}[a-zA-Z0-9_-]+(?:=\S+)?|\-[a-zA-Z](?:\s+\S+)?)
option_pattern ==
    Grp(Alt(<<Cat(<<Rep(Lit(<<"-">>), 1, 2, TRUE), Plus(Set(WordCh \cup {"-"})),
                    Opt(Cat(<<Lit(<<"=">>), Plus(ReNS)>>))>>),
              Cat(<<Lit(<<"-">>), Set(Letter), Opt(Cat(<<Plus(ReS), Plus(ReNS)>>))>>)>>))

\* line.strip() of each line, the empty ones dropped (lines 248-251)
RECURSIVE CleanedLines(_)
CleanedLines(lines) ==
    IF lines = <<>> THEN <<>>
    ELSE NonEmpty(Strip(Head(lines))) \o CleanedLines(Tail(lines))

\* lines 260-269: the record; value_type = <<>> is None
ParamRecord(primary_option, param_type, value_type, description) ==
    JObj(<<<<"n","a","m","e">>, <<"p","a","r","a","m","-","t","y","p","e">>>>
            \o (IF value_type # <<>> THEN <<<<"v","a","l","u","e","-","t","y","p","e">>>> ELSE <<>>)
            \o (IF description # <<>> THEN <<<<"d","e","s","c","r","i","p","t","i","o","n">>>> ELSE <<>>),
         <<JStr(Strip(primary_option)), JStr(param_type)>>
            \o (IF value_type # <<>> THEN <<JStr(value_type)>> ELSE <<>>)
            \o (IF description # <<>> THEN <<JStr(Truncate(description, 200))>> ELSE <<>>))
\* line 258
EntryTyped(primary_option, first_line, description, param_type) ==
    ParamRecord(primary_option, param_type,
                IF param_type # <<"f","l","a","g">> THEN extract_value_type(first_line, description)
                ELSE <<>>,
                description)
\* line 257
EntryDescribed(primary_option, first_line, description) ==
    EntryTyped(primary_option, first_line, description,
               classify_parameter_type(primary_option, description, first_line))
\* lines 239-254: the description, of what is left of the first line and of
\* the other lines
DescriptionText(lines, desc_on_first) ==
    Strip(CollapseSpace(JoinSpace(NonEmpty(desc_on_first) \o CleanedLines(Tail(lines)))))
\* lines 232-243
EntryMatched(lines, first_line, option_matches) ==
    IF option_matches = <<>> THEN <<>>
    ELSE <<EntryDescribed(option_matches[1], first_line,
               DescriptionText(lines,
                   Strip(SubCount(option_pattern, first_line, Len(option_matches)))))>>
\* lines 221-230
EntryFirstLine(lines, first_line) ==
    IF ~StartsWith(first_line, <<"-">>) THEN <<>>
    ELSE EntryMatched(lines, first_line, FindAll(option_pattern, first_line))
EntryLines(lines) == EntryFirstLine(lines, Strip(lines[1]))
\* the body of the loop for one entry: <<>> when the entry is skipped, else
\* the one record made of it
OptionEntry(entry) ==
    IF Strip(entry) = <<>> THEN <<>> ELSE EntryLines(SplitLines(Strip(entry)))

RECURSIVE OptionEntries(_)
OptionEntries(option_entries) ==
    IF option_entries = <<>> THEN <<>>
    ELSE OptionEntry(Head(option_entries)) \o OptionEntries(Tail(option_entries))

OptionsOf(man_content, options_match) ==
    IF ~options_match.found THEN <<>>
    ELSE OptionEntries(Split(EntrySplitRe, Group1(man_content, options_match)))
parse_options(man_content) == OptionsOf(man_content, Search(OptionsRe, man_content))

\* ---------------------------------------------------- parse_positional_args
\* SYNOPSIS\s*\n\s*(.+?)(?=\n\n|\n[A-Z])   (re.DOTALL)
SynopsisRe ==
    Cat(<<Lit(<<"S","Y","N","O","P","S","I","S">>), Star(ReS), Lit(<<"\n">>), Star(ReS), Grp(LazyPlus(AnyCh)),
          Ahead(Alt(<<Lit(<<"\n","\n">>), Cat(<<Lit(<<"\n">>), Set(Upper)>>)>>))>>)
\* \b{command}\b: the command name is put into the pattern as it is; the
\* commands of the model are made of word characters, which match themselves
CommandRe(command) == Cat(<<WordB, Lit(command), WordB>>)
\* \[?-{1,2}\w+(?:\s+\w+)?\]?
SynopsisOptionRe ==
    Cat(<<Opt(Lit(<<"[">>)), Rep(Lit(<<"-">>), 1, 2, TRUE), Plus(ReW),
          Opt(Cat(<<Plus(ReS), Plus(ReW)>>)), Opt(Lit(<<"]">>))>>)
\* \[?([A-Z_]+|\w+\.\.\.)(?:\s+[A-Z_]+|\s+\w+\.\.\.)?\]?
positional_pattern ==
    Cat(<<Opt(Lit(<<"[">>)),
          Grp(Alt(<<Plus(Set(Upper \cup {"_"})), Cat(<<Plus(ReW), Lit(<<".",".",".">>)>>)>>)),
          Opt(Alt(<<Cat(<<Plus(ReS), Plus(Set(Upper \cup {"_"}))>>),
                    Cat(<<Plus(ReS), Plus(ReW), Lit(<<".",".",".">>)>>)>>)),
          Opt(Lit(<<"]">>))>>)

\* lines 310-318: the value-type of a positional argument
ValueTypeOfLower(arg_lower) ==
    IF Contains(arg_lower, <<"f","i","l","e">>) \/ Contains(arg_lower, <<"p","a","t","h">>) THEN <<"f","i","l","e","-","p","a","t","h">>
    ELSE IF Contains(arg_lower, <<"d","i","r">>) THEN <<"d","i","r","e","c","t","o","r","y">>
    ELSE IF Contains(arg_lower, <<"p","i","d">>) THEN <<"p","i","d">>
    ELSE RStripDots(arg_lower)
\* lines 303-318: the record of the match pos_arg at index idx
PositionalRecord(pos_arg, idx) ==
    JObj(<<<<"n","a","m","e">>, <<"p","a","r","a","m","-","t","y","p","e">>, <<"p","o","s","i","t","i","o","n">>, <<"v","a","l","u","e","-","t","y","p","e">>>>,
         <<JStr(Strip(pos_arg)), JStr(<<"p","o","s","i","t","i","o","n","a","l">>), JNum(IntToStr(idx)),
           JStr(ValueTypeOfLower(LowerStr(pos_arg)))>>)
\* the loop over enumerate(positional_matches, 1), from index idx on
RECURSIVE PositionalFrom(_, _)
PositionalFrom(positional_matches, idx) ==
    IF idx > Len(positional_matches) THEN <<>>
    ELSE (IF Strip(positional_matches[idx]) # <<>>
          THEN <<PositionalRecord(positional_matches[idx], idx)>> ELSE <<>>)
         \o PositionalFrom(positional_matches, idx + 1)
\* lines 290-299
PositionalOf(man_content, command, synopsis_match) ==
    IF ~synopsis_match.found THEN <<>>
    ELSE PositionalFrom(
            FindAll(positional_pattern,
                    SubAll(SynopsisOptionRe,
                           SubAll(CommandRe(command),
                                  Strip(Group1(man_content, synopsis_match))))),
            1)
parse_positional_args(man_content, command) ==
    PositionalOf(man_content, command, Search(SynopsisRe, man_content))

\* -------------------------------------------------------------- man_to_json
\* the record made of a manual page that was retrieved (result["tool"])
ToolRecord(command, man_content) ==
    JObj(<<<<"n","a","m","e">>, <<"d","e","s","c","r","i","p","t","i","o","n">>, <<"p","a","r","a","m","e","t","e","r","s">>>>,
         <<JStr(command), JStr(extract_description(man_content)),
           JArr(parse_positional_args(man_content, command) \o parse_options(man_content))>>)

\* --------------------------------------------------------- get_man_page
\* Optional[str]: None, or a text
None == [none |-> TRUE, text |-> <<>>]
Some(text) == [none |-> FALSE, text |-> text]
\* "if not x" of an Optional[str]: None and '' are false
Falsy(x) == x.none \/ x.text = <<>>

\* What the web does for one request: web.raises (requests.get raises),
\* web.status, web.has_content (the page has the div with id "content") and
\* web.text (the text of that div).
get_man_page_from_web(command, web) ==
    IF web.raises THEN None
    ELSE IF web.status # 200 THEN None
    ELSE IF ~web.has_content THEN None
    ELSE Some(web.text)

\* Variants of get_man_page that are wrong on purpose: one takes the exit
\* status of man where the code takes that of col, the other asks the web
\* first.  The properties of get_man_page must tell them from it.
get_man_page_man_status(command, env) ==
    IF ~env.man_present \/ ~env.col_present
    THEN [ret |-> get_man_page_from_web(command, env.web), web_calls |-> 1]
    ELSE IF env.man_rc # 0 \/ Strip(env.stdout) = <<>>
    THEN [ret |-> get_man_page_from_web(command, env.web), web_calls |-> 1]
    ELSE [ret |-> Some(env.stdout), web_calls |-> 0]
get_man_page_web_first(command, env) ==
    IF ~Falsy(get_man_page_from_web(command, env.web))
    THEN [ret |-> get_man_page_from_web(command, env.web), web_calls |-> 1]
    ELSE IF ~env.man_present \/ ~env.col_present \/ env.col_rc # 0
    THEN [ret |-> None, web_calls |-> 1]
    ELSE [ret |-> Some(env.stdout), web_calls |-> 1]

\* What the local tools do for one call: env.man_present and env.col_present
\* (the binaries exist), env.man_rc and env.col_rc (the exit status of each
\* process), env.stdout (what col writes).  The result is the value returned
\* and the number of calls of get_man_page_from_web made.
get_man_page(command, env) ==
    IF ~env.man_present \/ ~env.col_present
    THEN [ret |-> get_man_page_from_web(command, env.web), web_calls |-> 1]
    ELSE IF env.col_rc # 0 \/ Strip(env.stdout) = <<>>
    THEN [ret |-> get_man_page_from_web(command, env.web), web_calls |-> 1]
    ELSE [ret |-> Some(env.stdout), web_calls |-> 0]

\* ----------------------------------------------------------------- inputs
\* the command names given on the command line
Commands == {<<"l","s">>, <<"c","p">>}
\* manual pages: what col writes, and what the web page holds
PageLocal == <<"N","A","M","E","\n"," ","x"," ","-"," ","l","i","s","t","\n","\n","S","Y","N","O","P","S","I","S","\n"," ","x"," ","[","F","I","L","E","]",".",".",".","\n","\n">>
PageWeb == <<"O","P","T","I","O","N","S","\n"," ","-","v"," "," ","e","n","a","b","l","e","\n">>
LocalOutputs == {<<>>, <<" ","\n">>, PageLocal}
WebTexts == {<<>>, PageWeb}
WebOutcomes ==
    [raises : BOOLEAN, status : {200, 404}, has_content : BOOLEAN, text : WebTexts]
Envs ==
    [man_present : BOOLEAN, col_present : BOOLEAN, man_rc : {0, 16}, col_rc : {0, 1},
     stdout : LocalOutputs, web : WebOutcomes]
\* the texts get_man_page can return
Pages == (LocalOutputs \cup WebTexts) \ {<<>>}
\* what get_man_page(command) can return, over what the local tools and the
\* web can do
ManPagesOf == [c \in Commands |-> {get_man_page(c, env).ret : env \in Envs}]

\* lines 332-350 for every command and page of the model
ToolOf == [c \in Commands, t \in Pages |-> ToolRecord(c, t)]

\* A variant of man_to_json that is wrong on purpose: it takes an empty text
\* for a manual page.
man_to_json_of_any_text(command, man_content) ==
    IF man_content.none THEN JNull
    ELSE JObj(<<<<"t","o","o","l">>>>, <<ToolRecord(command, man_content.text)>>)

\* lines 329-350, man_content being what get_man_page returned (line 327):
\* None (as JNull) if there is no text, else {"tool": record}
man_to_json(command, man_content) ==
    IF Falsy(man_content) THEN JNull
    ELSE JObj(<<<<"t","o","o","l">>>>, <<ToolOf[command, man_content.text]>>)

\* ------------------------------------------------------------ output file
\* '"tools" not in existing_data' by the type of the document doc: membership
\* of a dict is of its keys, of a list of its elements, of a str of its
\* substrings; the other types have no membership (TypeError)
ToolsNotIn(doc) ==
    CASE doc.k = "obj" ->
            IF HasKey(doc, <<"t","o","o","l","s">>) THEN "false" ELSE "true"
      [] doc.k = "arr" ->
            IF \E i \in 1..Len(doc.items) : doc.items[i] = JStr(<<"t","o","o","l","s">>)
            THEN "false" ELSE "true"
      [] doc.k = "str" ->
            IF Contains(doc.s, <<"t","o","o","l","s">>) THEN "false" ELSE "true"
      [] OTHER -> "TypeError"

\* Variants of the append that are wrong on purpose: the record goes first,
\* or goes in twice.
PrependTool(doc, tool) ==
    SetKey(doc, <<"t","o","o","l","s">>, JArr(<<tool>> \o Get(doc, <<"t","o","o","l","s">>).items))
AppendToolTwice(doc, tool) ==
    SetKey(doc, <<"t","o","o","l","s">>, JArr(Get(doc, <<"t","o","o","l","s">>).items \o <<tool, tool>>))

\* existing_data["tools"].append(tool), on the document doc
AppendTool(doc, tool) ==
    SetKey(doc, <<"t","o","o","l","s">>, JArr(Append(Get(doc, <<"t","o","o","l","s">>).items, tool)))

\* Variants of lines 390-398 that are wrong on purpose: one makes a new
\* sequence of a "tools" that is not one, the other keeps the keys of a
\* mapping that has no "tools".
MergeOnCoerce(doc, tool, absent) ==
    IF absent = "TypeError" THEN [outcome |-> "TypeError", data |-> doc]
    ELSE IF absent = "true"
         THEN [outcome |-> "ok", data |-> AppendTool(JObj(<<<<"t","o","o","l","s">>>>, <<JArr(<<>>)>>), tool)]
    ELSE IF doc.k # "obj" THEN [outcome |-> "TypeError", data |-> doc]
    ELSE IF Get(doc, <<"t","o","o","l","s">>).k # "arr"
         THEN [outcome |-> "ok", data |-> SetKey(doc, <<"t","o","o","l","s">>, JArr(<<tool>>))]
    ELSE [outcome |-> "ok", data |-> AppendTool(doc, tool)]
MergeOnKeep(doc, tool, absent) ==
    IF absent = "TypeError" THEN [outcome |-> "TypeError", data |-> doc]
    ELSE IF absent = "true"
         THEN IF doc.k = "obj"
              THEN [outcome |-> "ok", data |-> SetKey(doc, <<"t","o","o","l","s">>, JArr(<<tool>>))]
              ELSE [outcome |-> "ok",
                    data |-> AppendTool(JObj(<<<<"t","o","o","l","s">>>>, <<JArr(<<>>)>>), tool)]
    ELSE IF doc.k # "obj" THEN [outcome |-> "TypeError", data |-> doc]
    ELSE IF Get(doc, <<"t","o","o","l","s">>).k # "arr"
         THEN [outcome |-> "not_array", data |-> doc]
    ELSE [outcome |-> "ok", data |-> AppendTool(doc, tool)]

\* Lines 390-398 on what json.load returned: [outcome, data].  outcome is
\* "ok" (data is the document to write), "not_array" (the error of line 394)
\* or "TypeError" (raised by line 391 or 393, caught at line 408).
MergeOn(doc, tool, absent) ==
    IF absent = "TypeError" THEN [outcome |-> "TypeError", data |-> doc]
    ELSE IF absent = "true"
         THEN [outcome |-> "ok", data |-> AppendTool(JObj(<<<<"t","o","o","l","s">>>>, <<JArr(<<>>)>>), tool)]
    ELSE IF doc.k # "obj" THEN [outcome |-> "TypeError", data |-> doc]
    ELSE IF Get(doc, <<"t","o","o","l","s">>).k # "arr"
         THEN [outcome |-> "not_array", data |-> doc]
    ELSE [outcome |-> "ok", data |-> AppendTool(doc, tool)]
Merge(doc, tool) == MergeOn(doc, tool, ToolsNotIn(doc))

\* a write of toks at offset 0 of a file that holds text
Overlay(text, toks) == toks \o SubSeq(text, Len(toks) + 1, Len(text))

\* the record of a tool that is in the file before the program runs
ToolA == ToolRecord(<<"p","s">>, PageWeb)
\* what the output file holds before the first run
InitialTexts ==
    { Dump(JObj(<<<<"t","o","o","l","s">>>>, <<JArr(<<ToolA>>)>>)),
      Dump(JObj(<<<<"t","o","o","l","s">>>>, <<JStr(<<"n","o","t","-","a","-","l","i","s","t">>)>>)),
      Dump(JObj(<<<<"t","o","o","l","s">>>>, <<JNull>>)),
      Dump(JObj(<<<<"t","o","o","l","s">>, <<"v","e","r","s","i","o","n">>>>, <<JArr(<<>>), JNum(<<"1">>)>>)),
      Dump(JObj(<<>>, <<>>)),
      Dump(JObj(<<<<"v","e","r","s","i","o","n">>>>, <<JNum(<<"1">>)>>)),
      Dump(JArr(<<JNum(<<"1">>)>>)),
      Dump(JArr(<<JStr(<<"t","o","o","l","s">>)>>)),
      Dump(JStr(<<"a","b","c">>)),
      Dump(JStr(<<"m","y","t","o","o","l","s">>)),
      Dump(JNum(<<"5">>)),
      Dump(JTrue),
      Dump(JNull),
      <<Tok("{")>>,
      <<>> }
NoFile == [exists |-> FALSE, text |-> <<>>]
InitialFiles == {NoFile} \cup {[exists |-> TRUE, text |-> t] : t \in InitialTexts}

\* ------------------------------------------------------------------- main
Procs == {1, 2}

VARIABLES
    file,           \* the output file: [exists, text]
    runs,           \* invocations started so far
    pc,             \* pc[p]: where invocation p is in main
    args,           \* args[p]: [command, output_file] (output_file: -o is given)
    man_page,       \* man_page[p]: man_content of man_to_json (line 327)
    result,         \* result[p]: what man_to_json returned
    existing_data,  \* existing_data[p]: the document to write
    exit_code,      \* exit_code[p]: what main returned
    stdout,         \* stdout[p]: the texts printed to standard output
    stderr,         \* stderr[p]: the last error message of main
    loaded,         \* history: loaded[p] is what json.load returned
    io_error,       \* history: io_error[p] is that open, read or write failed
    file0,          \* history: file0[p] is the file when invocation p started
    call,           \* the arguments of a call of one function alone
    ret             \* what that call returned

vars == <<file, runs, pc, args, man_page, result, existing_data, exit_code, stdout,
          stderr, loaded, io_error, file0, call, ret>>
mainvars == <<file, runs, pc, args, man_page, result, existing_data, exit_code, stdout,
              stderr, loaded, io_error, file0>>

NoCall == [fn |-> "none"]

InitMain ==
    /\ file \in InitialFiles
    /\ runs = 0
    /\ pc = [p \in Procs |-> "idle"]
    /\ args = [p \in Procs |-> [command |-> <<>>, output_file |-> FALSE]]
    /\ man_page = [p \in Procs |-> None]
    /\ result = [p \in Procs |-> JNull]
    /\ existing_data = [p \in Procs |-> JNull]
    /\ exit_code = [p \in Procs |-> 0]
    /\ stdout = [p \in Procs |-> <<>>]
    /\ stderr = [p \in Procs |-> "none"]
    /\ loaded = [p \in Procs |-> ParseFail]
    /\ io_error = [p \in Procs |-> FALSE]
    /\ file0 = [p \in Procs |-> NoFile]

Init == InitMain /\ call = NoCall /\ ret = NoCall

\* return n from main, msg being the error printed
Return(p, n, msg) ==
    /\ pc' = [pc EXCEPT ![p] = "done"]
    /\ exit_code' = [exit_code EXCEPT ![p] = n]
    /\ stderr' = [stderr EXCEPT ![p] = msg]

\* the program is started: parser.parse_args() (line 372)
Invoke(p) ==
    /\ pc[p] = "idle"
    /\ runs < MaxRuns
    /\ runs' = runs + 1
    /\ \E c \in Commands, o \in BOOLEAN :
          args' = [args EXCEPT ![p] = [command |-> c, output_file |-> o]]
    /\ pc' = [pc EXCEPT ![p] = "man_to_json"]
    /\ man_page' = [man_page EXCEPT ![p] = None]
    /\ result' = [result EXCEPT ![p] = JNull]
    /\ existing_data' = [existing_data EXCEPT ![p] = JNull]
    /\ exit_code' = [exit_code EXCEPT ![p] = 0]
    /\ stdout' = [stdout EXCEPT ![p] = <<>>]
    /\ stderr' = [stderr EXCEPT ![p] = "none"]
    /\ loaded' = [loaded EXCEPT ![p] = ParseFail]
    /\ io_error' = [io_error EXCEPT ![p] = FALSE]
    /\ file0' = [file0 EXCEPT ![p] = file]
    /\ UNCHANGED <<file, call, ret>>

\* lines 376-377: if not result: return 1
GotResult(p, r) ==
    /\ result' = [result EXCEPT ![p] = r]
    /\ IF r = JNull
       THEN Return(p, 1, "none")
       ELSE /\ pc' = [pc EXCEPT ![p] = "output"]
            /\ UNCHANGED <<exit_code, stderr>>
\* line 327: man_content = get_man_page(command)
GotManPage(p, text) ==
    /\ man_page' = [man_page EXCEPT ![p] = text]
    /\ GotResult(p, man_to_json(args[p].command, text))
\* line 374: result = man_to_json(args.command)
ManToJson(p) ==
    /\ pc[p] = "man_to_json"
    /\ \E text \in ManPagesOf[args[p].command] : GotManPage(p, text)
    /\ UNCHANGED <<file, runs, args, existing_data, stdout, loaded, io_error, file0,
                   call, ret>>

\* lines 422-426: print(json.dumps(result)); return 0
PrintResult(p) ==
    /\ pc[p] = "output"
    /\ ~args[p].output_file
    /\ stdout' = [stdout EXCEPT ![p] = Append(stdout[p], Dump(result[p]))]
    /\ Return(p, 0, "none")
    /\ UNCHANGED <<file, runs, args, man_page, result, existing_data, loaded, io_error,
                   file0, call, ret>>

\* lines 382-384, 411: if os.path.exists(args.output_file)
CheckExists(p) ==
    /\ pc[p] = "output"
    /\ args[p].output_file
    /\ pc' = [pc EXCEPT ![p] = IF file.exists THEN "read" ELSE "create"]
    /\ UNCHANGED <<file, runs, args, man_page, result, existing_data, exit_code,
                   stdout, stderr, loaded, io_error, file0, call, ret>>

\* lines 390-398 and the handlers of lines 405-410, on what json.load gave
Merged(p, m) ==
    IF m.outcome = "not_array"
    THEN /\ Return(p, 1, "Error: Existing file's 'tools' is not an array")
         /\ UNCHANGED existing_data
    ELSE IF m.outcome = "TypeError"
    THEN /\ Return(p, 1, "Error writing to file")
         /\ UNCHANGED existing_data
    ELSE /\ existing_data' = [existing_data EXCEPT ![p] = m.data]
         /\ pc' = [pc EXCEPT ![p] = "open_w"]
         /\ UNCHANGED <<exit_code, stderr>>
Loaded(p, r) ==
    /\ loaded' = [loaded EXCEPT ![p] = r]
    /\ IF ~r.ok
       THEN /\ Return(p, 1, "Error: Could not parse existing JSON file")
            /\ UNCHANGED existing_data
       ELSE Merged(p, Merge(r.v, Get(result[p], <<"t","o","o","l">>)))
\* lines 385-398: the file is read and parsed and the record is appended to
\* the document in memory; or open() or read() fails with an OSError
ReadExisting(p) ==
    /\ pc[p] = "read"
    /\ \/ /\ Loaded(p, Load(file.text))
          /\ UNCHANGED io_error
       \/ /\ Return(p, 1, "Error writing to file")
          /\ io_error' = [io_error EXCEPT ![p] = TRUE]
          /\ UNCHANGED <<loaded, existing_data>>
    /\ UNCHANGED <<file, runs, args, man_page, result, stdout, file0, call, ret>>

\* line 414: output_data = {"tools": [result["tool"]]}
CreateData(p) ==
    /\ pc[p] = "create"
    /\ existing_data' =
          [existing_data EXCEPT ![p] = JObj(<<<<"t","o","o","l","s">>>>, <<JArr(<<Get(result[p], <<"t","o","o","l">>)>>)>>)]
    /\ pc' = [pc EXCEPT ![p] = "open_w"]
    /\ UNCHANGED <<file, runs, args, man_page, result, exit_code, stdout, stderr,
                   loaded, io_error, file0, call, ret>>

\* lines 401 and 415: open(args.output_file, 'w') creates the file or cuts
\* it to length 0; or open() fails, which is caught at line 408 or 419
OpenForWrite(p) ==
    /\ pc[p] = "open_w"
    /\ \/ /\ file' = [exists |-> TRUE, text |-> <<>>]
          /\ pc' = [pc EXCEPT ![p] = "dump"]
          /\ UNCHANGED <<exit_code, stderr, io_error>>
       \/ /\ Return(p, 1, "Error writing to file")
          /\ io_error' = [io_error EXCEPT ![p] = TRUE]
          /\ UNCHANGED file
    /\ UNCHANGED <<runs, args, man_page, result, existing_data, stdout, loaded, file0,
                   call, ret>>

\* the text goes to offset 0 of the file, whole, or its first n tokens only
WriteText(p, text) ==
    \/ /\ file' = [file EXCEPT !.text = Overlay(file.text, text)]
       /\ Return(p, 0, "none")
       /\ UNCHANGED io_error
    \/ \E n \in 0..MaxPartial :
          /\ n < Len(text)
          /\ file' = [file EXCEPT !.text = Overlay(file.text, SubSeq(text, 1, n))]
          /\ Return(p, 1, "Error writing to file")
          /\ io_error' = [io_error EXCEPT ![p] = TRUE]
\* lines 402-404 and 416-418: json.dump and the close of the file, then
\* return 0 (line 426); or the write fails (caught at line 408 or 419)
DumpToFile(p) ==
    /\ pc[p] = "dump"
    /\ WriteText(p, Dump(existing_data[p]))
    /\ UNCHANGED <<runs, args, man_page, result, existing_data, stdout, loaded, file0,
                   call, ret>>

\* sys.exit(main()): the process is gone, and what it held with it
Exit(p) ==
    /\ pc[p] = "done"
    /\ pc' = [pc EXCEPT ![p] = "idle"]
    /\ args' = [args EXCEPT ![p] = [command |-> <<>>, output_file |-> FALSE]]
    /\ man_page' = [man_page EXCEPT ![p] = None]
    /\ result' = [result EXCEPT ![p] = JNull]
    /\ existing_data' = [existing_data EXCEPT ![p] = JNull]
    /\ exit_code' = [exit_code EXCEPT ![p] = 0]
    /\ stdout' = [stdout EXCEPT ![p] = <<>>]
    /\ stderr' = [stderr EXCEPT ![p] = "none"]
    /\ loaded' = [loaded EXCEPT ![p] = ParseFail]
    /\ io_error' = [io_error EXCEPT ![p] = FALSE]
    /\ file0' = [file0 EXCEPT ![p] = NoFile]
    /\ UNCHANGED <<file, runs, call, ret>>

Step(p) ==
    \/ Invoke(p)
    \/ ManToJson(p)
    \/ PrintResult(p)
    \/ CheckExists(p)
    \/ ReadExisting(p)
    \/ CreateData(p)
    \/ OpenForWrite(p)
    \/ DumpToFile(p)
    \/ Exit(p)

\* one invocation at a time
Next == Step(1)
Spec == Init /\ [][Next]_vars

\* invocations that run at the same time on the same output file, which
\* does not exist or holds {"tools": [A]} at first
FileA == [exists |-> TRUE, text |-> Dump(JObj(<<<<"t","o","o","l","s">>>>, <<JArr(<<ToolA>>)>>))]
InitConc == Init /\ file \in {NoFile, FileA}
NextConc == \E p \in Procs : Step(p)
SpecConc == InitConc /\ [][NextConc]_vars

\* ------------------------------------------------- one function at a time
\* The main program is idle and does not run while a function is called
\* alone.
IdleMain == InitMain /\ ~file.exists

\* get_man_page(command), for every command and every behaviour of the
\* local tools and of the web
RetrieveCalls == [fn : {"get_man_page"}, command : Commands, env : Envs]
InitRetrieve == IdleMain /\ call \in RetrieveCalls /\ ret = NoCall
CallGetManPage ==
    /\ call.fn = "get_man_page"
    /\ ret.fn = "none"
    /\ ret' = [fn |-> "get_man_page", v |-> get_man_page(call.command, call.env)]
    /\ UNCHANGED <<mainvars, call>>
SpecRetrieve == InitRetrieve /\ [][CallGetManPage]_vars

\* parse_positional_args(man_content, command) on a SYNOPSIS section of one
\* line: the command and up to MaxWords words after it
MaxWords == 3
SynopsisWords == {<<"[","O","P","T","I","O","N","S","]">>, <<"P","A","T","T","E","R","N">>, <<"[","F","I","L","E","]",".",".",".">>, <<"[","-","n"," ","N","U","M","]">>, <<"f","i","l","e">>}
WordSeqs == UNION {[1..n -> SynopsisWords] : n \in 0..MaxWords}
RECURSIVE JoinWords(_)
JoinWords(ws) == IF ws = <<>> THEN <<>> ELSE <<" ">> \o Head(ws) \o JoinWords(Tail(ws))
SynopsisText(command, ws) == <<"S","Y","N","O","P","S","I","S","\n"," "," "," "," ">> \o command \o JoinWords(ws) \o <<"\n","\n">>
SynopsisCalls == [fn : {"parse_positional_args"}, command : {<<"g","r","e","p">>}, words : WordSeqs]
InitSynopsis == IdleMain /\ call \in SynopsisCalls /\ ret = NoCall
CallParsePositionalArgs ==
    /\ call.fn = "parse_positional_args"
    /\ ret.fn = "none"
    /\ ret' = [fn |-> "parse_positional_args",
               v |-> parse_positional_args(SynopsisText(call.command, call.words),
                                           call.command)]
    /\ UNCHANGED <<mainvars, call>>
SpecSynopsis == InitSynopsis /\ [][CallParsePositionalArgs]_vars

\* parse_options(man_content) on an OPTIONS section of one entry: the option
\* with its value token, then the description on the same line or on the next
OptionHeads == {<<"-","D"," ","f","o","r","m","a","t">>, <<"-","f"," ","F","I","L","E">>, <<"-","n"," ","n","u","m">>, <<"-","v">>, <<"-","o"," ","f","i","l","e">>, <<"-","-","c","o","l","o","r","=","W","H","E","N">>}
Gaps == {<<" "," ">>, <<"\n"," "," "," "," "," "," "," "," ">>}
Descriptions ==
    {<<"p","r","i","n","t"," ","u","s","i","n","g"," ","f","o","r","m","a","t">>, <<"s","p","e","c","i","f","y"," ","t","h","e"," ","f","o","r","m","a","t">>, <<"n","a","m","e","=","v","a","l","u","e"," ","p","a","i","r","s">>, <<"b","e"," ","v","e","r","b","o","s","e">>,
     <<"e","n","a","b","l","e"," ","c","o","l","o","r","s">>, <<"w","r","i","t","e"," ","t","o"," ","f","i","l","e">>}
OptionsText(head, gap, desc) == <<"O","P","T","I","O","N","S","\n"," "," "," "," ">> \o head \o gap \o desc \o <<"\n">>
OptionsCalls == [fn : {"parse_options"}, head : OptionHeads, gap : Gaps, desc : Descriptions]
InitOptions == IdleMain /\ call \in OptionsCalls /\ ret = NoCall
CallParseOptions ==
    /\ call.fn = "parse_options"
    /\ ret.fn = "none"
    /\ ret' = [fn |-> "parse_options",
               v |-> parse_options(OptionsText(call.head, call.gap, call.desc))]
    /\ UNCHANGED <<mainvars, call>>
SpecOptions == InitOptions /\ [][CallParseOptions]_vars

\* ============================================================ properties
\* {"tools": items}
ToolsDoc(items) == JObj(<<<<"t","o","o","l","s">>>>, <<JArr(items)>>)
\* result["tool"] of invocation p
NewRecord(p) == Get(result[p], <<"t","o","o","l">>)
\* the text is a JSON mapping whose "tools" is a sequence
ValidDocument(text) ==
    /\ Load(text).ok
    /\ Load(text).v.k = "obj"
    /\ HasKey(Load(text).v, <<"t","o","o","l","s">>)
    /\ Get(Load(text).v, <<"t","o","o","l","s">>).k = "arr"
\* the "tools" of such a text
ToolsIn(text) == Get(Load(text).v, <<"t","o","o","l","s">>).items

\* ------------------------------------------------------------------- C1
\* invocation p read a mapping whose "tools" is not a sequence
NotASequence(p) ==
    /\ loaded[p].ok
    /\ loaded[p].v.k = "obj"
    /\ HasKey(loaded[p].v, <<"t","o","o","l","s">>)
    /\ Get(loaded[p].v, <<"t","o","o","l","s">>).k # "arr"
\* C1: when main runs with -o on an existing file that parses as a mapping
\* whose "tools" is not a sequence, main returns 1, the file holds after the
\* run what it held before, and the file is never opened for writing.
C1_MergeFailureLeavesFile ==
    NotASequence(1) =>
        /\ file = file0[1]
        /\ pc[1] \notin {"open_w", "dump"}
        /\ pc[1] = "done" => exit_code[1] = 1
C1_Witness ==
    /\ pc[1] = "done"
    /\ args[1].output_file
    /\ NotASequence(1)
    /\ file0[1].text = Dump(JObj(<<<<"t","o","o","l","s">>>>, <<JStr(<<"n","o","t","-","a","-","l","i","s","t">>)>>))
    /\ file = file0[1]
    /\ exit_code[1] = 1
    /\ stderr[1] = "Error: Existing file's 'tools' is not an array"

\* ------------------------------------------------------------------- C2
\* C2: each successful -o run on an existing valid document leaves the
\* previous "tools" sequence unchanged with exactly the new record appended
\* at the end; so [A] becomes [A, B] and then [A, B, C].
C2_AppendPreservesOrder ==
    ( /\ pc[1] = "done"
      /\ exit_code[1] = 0
      /\ args[1].output_file
      /\ file0[1].exists
      /\ ValidDocument(file0[1].text) )
    => /\ ValidDocument(file.text)
       /\ ToolsIn(file.text) = Append(ToolsIn(file0[1].text), NewRecord(1))
C2_Witness ==
    /\ pc[1] = "done"
    /\ exit_code[1] = 0
    /\ args[1].output_file
    /\ runs = 2
    /\ ValidDocument(file0[1].text)
    /\ Len(ToolsIn(file0[1].text)) = 2
    /\ ValidDocument(file.text)
    /\ Len(ToolsIn(file.text)) = 3
    /\ ToolsIn(file.text)[1] = ToolA
    /\ ToolsIn(file.text)[2] = ToolsIn(file0[1].text)[2]
    /\ ToolsIn(file.text)[3] = NewRecord(1)
    /\ ToolsIn(file.text)[2] # ToolsIn(file.text)[3]

\* ------------------------------------------------------------------- C3
\* C3: for every existing file that parses but whose top-level value is not
\* a mapping (an array, string, number, boolean or null), main with -o
\* returns 1 and leaves the file unmodified.
C3_NonMappingRejected ==
    ( /\ pc[1] = "done"
      /\ args[1].output_file
      /\ loaded[1].ok
      /\ loaded[1].v.k # "obj" )
    => /\ exit_code[1] = 1
       /\ file = file0[1]

\* ------------------------------------------------------------------- C4
\* get_man_page called the web fallback once and returned what it gave
FellBack ==
    /\ ret.v.web_calls = 1
    /\ ret.v.ret = get_man_page_from_web(call.command, call.env.web)
\* the viewer (man) fails: it exits non-zero, the output is empty or
\* whitespace-only, or a binary is absent
ViewerFails(env) ==
    \/ ~env.man_present
    \/ ~env.col_present
    \/ env.man_rc # 0
    \/ Strip(env.stdout) = <<>>
\* the same with the exit status of col, the last process of the pipeline
StripperFails(env) ==
    \/ ~env.man_present
    \/ ~env.col_present
    \/ env.col_rc # 0
    \/ Strip(env.stdout) = <<>>
\* C4 as stated: whenever the viewer process exits non-zero, the stripped
\* output is empty or whitespace-only, or the man/col binaries are absent,
\* get_man_page invokes get_man_page_from_web exactly once and returns its
\* result.
C4_ViewerFailureFallsBack ==
    (ret.fn = "get_man_page" /\ ViewerFails(call.env)) => FellBack
\* C4 as the code has it: whenever the col process exits non-zero, the
\* stripped output is empty or whitespace-only, or the man/col binaries are
\* absent, get_man_page invokes get_man_page_from_web exactly once and
\* returns its result.
C4_StripperFailureFallsBack ==
    (ret.fn = "get_man_page" /\ StripperFails(call.env)) => FellBack
C4_Witness ==
    /\ ret.fn = "get_man_page"
    /\ call.env.man_present
    /\ call.env.col_present
    /\ call.env.col_rc = 1
    /\ call.env.stdout = PageLocal
    /\ ret.v.web_calls = 1
    /\ ret.v.ret = Some(PageWeb)

\* ------------------------------------------------------------------- C5
\* C5: whenever the man | col -b pipeline exits with status 0 (the status of
\* a pipeline is that of its last process, col) and its output is not
\* whitespace-only, get_man_page returns that text and never invokes
\* get_man_page_from_web.
C5_LocalSuccessNoWeb ==
    ( /\ ret.fn = "get_man_page"
      /\ call.env.man_present
      /\ call.env.col_present
      /\ call.env.col_rc = 0
      /\ Strip(call.env.stdout) # <<>> )
    => /\ ret.v.web_calls = 0
       /\ ret.v.ret = Some(call.env.stdout)
C5_Witness ==
    /\ ret.fn = "get_man_page"
    /\ call.env.man_present
    /\ call.env.col_present
    /\ call.env.man_rc = 0
    /\ call.env.col_rc = 0
    /\ call.env.stdout = PageLocal
    /\ get_man_page_from_web(call.command, call.env.web) = Some(PageWeb)
    /\ ret.v.web_calls = 0
    /\ ret.v.ret = Some(PageLocal)

\* ------------------------------------------------------------------- C6
\* C6: when retrieval yields no text (None or the empty text), main returns
\* 1, writes nothing to standard output and neither creates nor modifies
\* the output file; and main returns 0 only after the record was printed or
\* the output file was written completely.
C6_RetrievalFailure ==
    pc[1] = "done" =>
        /\ Falsy(man_page[1]) =>
              /\ exit_code[1] = 1
              /\ stdout[1] = <<>>
              /\ file = file0[1]
        /\ exit_code[1] = 0 =>
              /\ ~Falsy(man_page[1])
              /\ \/ /\ ~args[1].output_file
                    /\ stdout[1] = <<Dump(result[1])>>
                 \/ /\ args[1].output_file
                    /\ file.exists
                    /\ file.text = Dump(existing_data[1])
                    /\ ToolsIn(file.text)[Len(ToolsIn(file.text))] = NewRecord(1)
C6_Witness ==
    /\ pc[1] = "done"
    /\ args[1].output_file
    /\ man_page[1] = Some(<<>>)
    /\ exit_code[1] = 1
    /\ stdout[1] = <<>>
    /\ ~file.exists

\* ------------------------------------------------------------------- C7
\* the words after the command in "grep [OPTIONS] PATTERN [FILE]..."
GrepSynopsis == <<<<"[","O","P","T","I","O","N","S","]">>, <<"P","A","T","T","E","R","N">>, <<"[","F","I","L","E","]",".",".",".">>>>
\* C7: parse_positional_args, given the synopsis
\* "grep [OPTIONS] PATTERN [FILE]..." and the command grep, returns exactly
\* two positional records, with position 1 and 2, the second with value-type
\* file-path.
C7_GrepTwoPositionals ==
    ( /\ ret.fn = "parse_positional_args"
      /\ call.command = <<"g","r","e","p">>
      /\ call.words = GrepSynopsis )
    => /\ Len(ret.v) = 2
       /\ Get(ret.v[1], <<"p","o","s","i","t","i","o","n">>) = JNum(<<"1">>)
       /\ Get(ret.v[2], <<"p","o","s","i","t","i","o","n">>) = JNum(<<"2">>)
       /\ Get(ret.v[2], <<"v","a","l","u","e","-","t","y","p","e">>) = JStr(<<"f","i","l","e","-","p","a","t","h">>)

\* ------------------------------------------------------------------- C8
\* the entries that begin with a short option, whitespace and a value token
ShortValueHeads == {<<"-","D"," ","f","o","r","m","a","t">>, <<"-","f"," ","F","I","L","E">>, <<"-","n"," ","n","u","m">>, <<"-","o"," ","f","i","l","e">>}
\* one of the rules before the dash-token rule may apply to the entry: it
\* has a flag word, name=value, username:password, name:value or an "="
EarlierRule(entry) ==
    \/ Matches(FlagWordRe, LowerStr(entry))
    \/ Matches(NameValueRe, entry)
    \/ Matches(UserPassRe, entry)
    \/ Matches(NameColonValueRe, entry)
    \/ Contains(entry, <<"=">>)
\* C8: for an OPTIONS entry whose first line begins with a short option,
\* whitespace and a value token, and to which none of the earlier rules
\* applies, parse_options takes the value token into the name of the option
\* and the type is "option", whatever the description says.
C8_ValueTokenInName ==
    ( /\ ret.fn = "parse_options"
      /\ call.head \in ShortValueHeads
      /\ ~EarlierRule(call.head \o <<" ">> \o call.desc) )
    => /\ Len(ret.v) = 1
       /\ Get(ret.v[1], <<"n","a","m","e">>) = JStr(call.head)
       /\ Get(ret.v[1], <<"p","a","r","a","m","-","t","y","p","e">>) = JStr(<<"o","p","t","i","o","n">>)

\* ------------------------------------------------------------------- C9
\* invocation p read a mapping that has no "tools"
NoToolsKey(p) ==
    /\ loaded[p].ok
    /\ loaded[p].v.k = "obj"
    /\ ~HasKey(loaded[p].v, <<"t","o","o","l","s">>)
\* C9: when the existing file parses as a mapping without "tools", the
\* document to write is exactly {"tools": [new record]}, every other key
\* being dropped, and unless opening or writing the file fails the run
\* returns 0 with that document in the file.
C9_MissingToolsRecreated ==
    NoToolsKey(1) =>
        /\ pc[1] \in {"open_w", "dump"} => existing_data[1] = ToolsDoc(<<NewRecord(1)>>)
        /\ (pc[1] = "done" /\ ~io_error[1]) =>
              /\ exit_code[1] = 0
              /\ file.text = Dump(ToolsDoc(<<NewRecord(1)>>))
C9_Witness ==
    /\ pc[1] = "done"
    /\ NoToolsKey(1)
    /\ HasKey(loaded[1].v, <<"v","e","r","s","i","o","n">>)
    /\ exit_code[1] = 0
    /\ Load(file.text).ok
    /\ Load(file.text).v.keys = <<<<"t","o","o","l","s">>>>
    /\ ToolsIn(file.text) = <<NewRecord(1)>>

\* ------------------------------------------------------------------ C10
\* both invocations ran with -o, read {"tools": [A]} and returned 0
BothReadA ==
    \A p \in Procs :
        /\ pc[p] = "done"
        /\ exit_code[p] = 0
        /\ args[p].output_file
        /\ loaded[p].ok
        /\ loaded[p].v = ToolsDoc(<<ToolA>>)
\* the file holds the new records of both invocations after A
HoldsBoth ==
    /\ ValidDocument(file.text)
    /\ \E i, j \in 2..Len(ToolsIn(file.text)) :
          /\ i # j
          /\ ToolsIn(file.text)[i] = NewRecord(1)
          /\ ToolsIn(file.text)[j] = NewRecord(2)
\* C10: the read and the rewrite of the file are not one step: when two
\* invocations on the same file both read {"tools": [A]} before either
\* writes and both return 0, the file never holds both new records; an
\* update is lost.
C10_LostUpdate == BothReadA => ~HoldsBoth
C10_Witness ==
    /\ BothReadA
    /\ NewRecord(1) # NewRecord(2)
    /\ ValidDocument(file.text)
    /\ ToolsIn(file.text) = <<ToolA, NewRecord(2)>>

====
